---- MODULE Spec2Model ----
(***************************************************************************)
(* Renewal reminder pipeline: the Reminder Scheduler, the Reminder         *)
(* Dispatcher, the Policy Lifecycle Updater and the reminder / policy      *)
(* endpoints that touch the same rows.                                     *)
(*                                                                         *)
(* Time is counted in calendar days: `today` is date.today(), and          *)
(* datetime.utcnow() is an instant inside that day, after midnight.  A     *)
(* scheduled_date is kept as the day it falls on, so                       *)
(* "scheduled_date <= utcnow()" reads sched <= today, and a midnight of    *)
(* day d is "< utcnow()" exactly when d <= today.                          *)
(***************************************************************************)
EXTENDS Integers, Sequences, FiniteSets, TLC

\* ------------------------------------------------------------- bounds
MaxDay == 1
MaxRows == 2
MaxDailyDay == 33
MaxInteractions == 11
MaxHeld == 2

\* ---------------------------------------------------- program constants
MaxRetries == 3
Horizon == 30
TermDays == 365
RetentionDays == 7
RecentDays == 3
ApsBatchLimit == 100
CeleryBatchLimit == 50

\* settings.reminder_window_days with REMINDER_WINDOWS = "30,15,7,1"
reminder_window_days == <<30, 15, 7, 1>>

WindowSet == {reminder_window_days[k] : k \in 1..Len(reminder_window_days)}

\* The policies of the store, in the order a query returns them.
PolicySeq == <<"p1", "p2">>

Policies == {PolicySeq[k] : k \in 1..Len(PolicySeq)}

\* The two processes that run the periodic jobs: the APScheduler jobs of
\* the web process and the Celery beat tasks.
Jobs == {"aps", "celery"}

\* PolicyStatus
PolicyStatus == {"active", "pending_renewal", "renewed", "lapsed", "cancelled"}

\* ReminderStatus
ReminderStatus == {"pending", "sent", "delivered", "failed", "cancelled"}

\* ReminderChannel
ReminderChannel == {"email", "sms", "whatsapp", "chat"}

\* customer.preferred_channel of the policy's customer
preferred_channel(p) == IF p = "p1" THEN "sms" ELSE "email"

\* Provider message ids (X-Message-Id, message_sid)
MessageIds == {"m1"}

NoDay == -1

NoText == "none"

\* Nothing has run yet.
NoCall == [op |-> "none"]

VARIABLES
    today,      \* date.today()
    pstatus,    \* Policy.status
    prenewal,   \* Policy.renewal_date
    reminders,  \* the renewal_reminders table; a row's id is its index
    ssn,        \* per job: the open session of check_and_create_reminders
    dsn,        \* per job: the open session of send_pending_reminders
    calls,      \* history: Dispatcher gateway invocations per reminder
    sentN,      \* history: gateway outcomes "sent" per reminder (any caller)
    failN,      \* history: Dispatcher gateway outcomes "failed" per reminder
    streak,     \* history: consecutive Dispatcher ticks whose send returned failed
    seq,        \* history: Scheduler runs in succession on one day: 1 a run
                \* scanning, 2 / 4 a run done that created none / some rows,
                \* 3 / 5 the next run scanning right after it, 6 that next
                \* run done after one that created rows, 7 a run rolled
                \* back with rows added to its session, 0 otherwise
    updRan,     \* history: update_policy_statuses has run today
    schedRan,   \* history: check_and_create_reminders has run today
    outreach,   \* the outreach_logs table
    retOn,      \* history: per policy, the day process_retention_outreach
                \* last invoked the gateway for it
    engagement_score,   \* Customer.engagement_score
    interactions,       \* per customer: interaction_logs rows of the last
                        \* 30 days
    held,       \* per customer: further policies, renewed and lapsed
    last        \* history: the job or call the last step ran, with what it
                \* was given and what it returned or logged

vars == <<today, pstatus, prenewal, reminders, ssn, dsn, calls, sentN, failN,
          streak, seq, updRan, schedRan, outreach, retOn, engagement_score,
          interactions, held, last>>

hist == <<calls, sentN, failN, streak>>

daily == <<updRan, schedRan>>

cust == <<engagement_score, interactions, held>>

aux == <<outreach, retOn, cust, last>>

RowIds == 1..Len(reminders)

Min(a, b) == IF a < b THEN a ELSE b

\* ------------------------------------------------------------ rows

\* RenewalReminder(policy_id, reminder_type, channel, scheduled_date,
\* status=PENDING); retry_count defaults to 0, the rest to NULL.
RenewalReminder(p, w, ch, sd) ==
    [policy |-> p, rtype |-> w, channel |-> ch, sched |-> sd,
     status |-> "pending", retry |-> 0, sent |-> NoDay, ext |-> NoText,
     err |-> NoText]

\* select(RenewalReminder).where(policy_id == p, reminder_type == w)
Existing(rows, p, w) ==
    {i \in 1..Len(rows) : rows[i].policy = p /\ rows[i].rtype = w}

Count(rows, p, w) == Cardinality(Existing(rows, p, w))

\* ------------------------------------------------ Reminder Scheduler

\* A query that takes due policies of every status.
DuePolicy_AnyStatus(p, d, w) == prenewal[p] = d + w

\* A window matched from its day on instead of on its day.
DuePolicy_Within(p, d, w) == prenewal[p] <= d + w /\ pstatus[p] = "active"

\* select(Policy).where(renewal_date == target_date, status == ACTIVE)
DuePolicy(p, d, w) == prenewal[p] = d + w /\ pstatus[p] = "active"

\* The existence check left out: every due policy gets a new row.
AlreadyExists_NoCheck(rows, p, w) == FALSE

\* existing.scalar_one_or_none() is truthy
AlreadyExists(rows, p, w) == Existing(rows, p, w) # {}

\* The inner loop over the policies of one window: rows with the new
\* reminders appended.
RECURSIVE CreateForWindow(_, _, _, _)
CreateForWindow(rows, d, w, k) ==
    IF k > Len(PolicySeq) THEN rows
    ELSE LET p == PolicySeq[k]
         IN  IF DuePolicy(p, d, w) /\ ~AlreadyExists(rows, p, w)
             THEN CreateForWindow(
                      Append(rows, RenewalReminder(p, w, preferred_channel(p), d)),
                      d, w, k + 1)
             ELSE CreateForWindow(rows, d, w, k + 1)

\* The outer loop over settings.reminder_window_days.
RECURSIVE CreateForWindows(_, _, _)
CreateForWindows(rows, d, n) ==
    IF n > Len(reminder_window_days) THEN rows
    ELSE CreateForWindows(
             CreateForWindow(rows, d, reminder_window_days[n], 1), d, n + 1)

\* The rows one run adds to its session, in order.
ToCreate(rows, d) ==
    SubSeq(CreateForWindows(rows, d, 1), Len(rows) + 1,
           Len(CreateForWindows(rows, d, 1)))

\* scalar_one_or_none() raises MultipleResultsFound when the pair a due
\* policy is checked for already holds more than one row.
ScanRaises(rows, d) ==
    \E w \in WindowSet : \E p \in Policies :
        DuePolicy(p, d, w) /\ Count(rows, p, w) > 1

\* Where the two loops reach (window, policy).
LoopPos(w, p) ==
    (CHOOSE n \in 1..Len(reminder_window_days) : reminder_window_days[n] = w)
        * Len(PolicySeq)
    + (CHOOSE k \in 1..Len(PolicySeq) : PolicySeq[k] = p)

\* The rows db.add() has put into the session when the scan ends: all of
\* ToCreate, or those added before the first existence check that raises.
SessionAdds(rows, d) ==
    LET raising == {x \in WindowSet \X Policies :
                       DuePolicy(x[2], d, x[1]) /\ Count(rows, x[2], x[1]) > 1}
        Before(r) == \A x \in raising :
                         LoopPos(r.rtype, r.policy) < LoopPos(x[1], x[2])
    IN  SelectSeq(ToCreate(rows, d), Before)

IdleScheduler == [pc |-> "idle", adds |-> <<>>, raises |-> FALSE]

\* check_and_create_reminders up to its commit: the queries and db.add().
SchedScan(j) ==
    /\ ssn[j].pc = "idle"
    /\ ssn' = [ssn EXCEPT ![j] = [pc |-> "scanned",
                                   adds |-> SessionAdds(reminders, today),
                                   raises |-> ScanRaises(reminders, today)]]
    /\ seq' = IF \E k \in Jobs : ssn[k].pc # "idle" THEN 0
              ELSE IF seq = 2 THEN 3 ELSE IF seq \in {4, 6} THEN 5 ELSE 1
    /\ UNCHANGED <<today, pstatus, prenewal, reminders, dsn, hist, daily, aux>>

\* await db.commit()
SchedCommit(j) ==
    /\ ssn[j].pc = "scanned"
    /\ ~ssn[j].raises
    /\ Len(reminders) + Len(ssn[j].adds) <= MaxRows
    /\ reminders' = reminders \o ssn[j].adds
    /\ ssn' = [ssn EXCEPT ![j] = IdleScheduler]
    /\ seq' = IF seq \notin {1, 3, 5} THEN 0
              ELSE IF ssn[j].adds # <<>> THEN 4 ELSE IF seq = 5 THEN 6 ELSE 2
    /\ UNCHANGED <<today, pstatus, prenewal, dsn, hist, daily, aux>>

\* check_and_create_reminders run to its commit with no other transaction
\* in between.
SchedRun(j) ==
    /\ ssn[j].pc = "idle"
    /\ ~ScanRaises(reminders, today)
    /\ Len(reminders) + Len(ToCreate(reminders, today)) <= MaxRows
    /\ reminders' = reminders \o ToCreate(reminders, today)
    /\ UNCHANGED <<today, pstatus, prenewal, ssn, dsn, hist, seq, daily, aux>>

\* A rollback that lets the first row of the session through.
SchedAbort_KeepsFirst(j) ==
    /\ ssn[j].pc = "scanned"
    /\ Len(reminders) < MaxRows
    /\ reminders' = IF ssn[j].adds = <<>> THEN reminders
                     ELSE Append(reminders, Head(ssn[j].adds))
    /\ ssn' = [ssn EXCEPT ![j] = IdleScheduler]
    /\ seq' = IF ssn[j].adds # <<>> THEN 7 ELSE 0
    /\ UNCHANGED <<today, pstatus, prenewal, dsn, hist, daily, aux>>

\* except Exception: await db.rollback(), after a query, a policy of the
\* loop or the commit raised.
SchedAbort(j) ==
    /\ ssn[j].pc = "scanned"
    /\ ssn' = [ssn EXCEPT ![j] = IdleScheduler]
    /\ seq' = IF ssn[j].adds # <<>> THEN 7 ELSE 0
    /\ UNCHANGED <<today, pstatus, prenewal, reminders, dsn, hist, daily, aux>>

\* --------------------------------------------------- Channel Gateway

Outcome(st, mid, e) == [status |-> st, mid |-> mid, error |-> e]

Raised == Outcome("raise", NoText, NoText)

\* customer.phone as stored: NULL, a number without country code, a number
\* in E.164 form.
Phones == {"null", "local", "e164"}

\* What the provider's client does with a request: answer, or raise.
ProviderReplies == {"accept", "reject"}

\* Channel names a caller can pass: the ReminderChannel values and a name
\* outside them.
ChannelNames == ReminderChannel \cup {"push"}

\* SMSService._format_number / WhatsAppService._format_number:
\* number.strip(), then "+91" before a number that has no "+".  On None the
\* call raises AttributeError.
format_number(ph) ==
    IF ph = "null" THEN "raise" ELSE IF ph = "local" THEN "+91local" ELSE ph

\* EmailService.send_email
send_email(x) ==
    IF ~x.sendgrid THEN Outcome("skipped", NoText, NoText)
    ELSE IF x.reply = "accept" THEN Outcome("sent", x.mid, NoText)
    ELSE Outcome("failed", NoText, "provider error")

\* SMSService.send_sms: _format_number is called before the try block.
send_sms(x) ==
    IF ~x.twilio THEN Outcome("skipped", NoText, NoText)
    ELSE IF format_number(x.phone) = "raise" THEN Raised
    ELSE IF x.reply = "accept" THEN Outcome("sent", x.mid, NoText)
    ELSE Outcome("failed", NoText, "provider error")

\* WhatsAppService.send_whatsapp: same shape as send_sms.
send_whatsapp(x) ==
    IF ~x.twilio THEN Outcome("skipped", NoText, NoText)
    ELSE IF format_number(x.phone) = "raise" THEN Raised
    ELSE IF x.reply = "accept" THEN Outcome("sent", x.mid, NoText)
    ELSE Outcome("failed", NoText, "provider error")

\* The gateway with the chat channel handed to the email service.
gateway_send_reminder_ChatAsEmail(x) ==
    IF x.ch \in {"email", "chat"} THEN send_email(x)
    ELSE IF x.ch = "sms" THEN send_sms(x)
    ELSE IF x.ch = "whatsapp" THEN send_whatsapp(x)
    ELSE Outcome("failed", NoText, "unknown channel")

\* Whether a call reaches the provider: client.send of SendGrid,
\* client.messages.create of Twilio.
provider_called(x) ==
    IF x.ch = "email" THEN x.sendgrid
    ELSE IF x.ch \in {"sms", "whatsapp"}
    THEN x.twilio /\ format_number(x.phone) # "raise"
    ELSE FALSE

\* CommunicationGateway.send_reminder
gateway_send_reminder(x) ==
    IF x.ch = "email" THEN send_email(x)
    ELSE IF x.ch = "sms" THEN send_sms(x)
    ELSE IF x.ch = "whatsapp" THEN send_whatsapp(x)
    ELSE Outcome("failed", NoText, "unknown channel")

\* What a call for channel ch can be given: the customer's phone, whether
\* the SendGrid / Twilio credentials are set, and what the provider does.
GatewayInputs(ch) ==
    [ch : {ch}, phone : Phones, sendgrid : BOOLEAN, twilio : BOOLEAN,
     reply : ProviderReplies, mid : MessageIds]

\* CommunicationGateway.send_reminder: what a call can come back with.
GatewayOutcomes(ch) == {gateway_send_reminder(x) : x \in GatewayInputs(ch)}

\* One call of CommunicationGateway.send_reminder on its own.
GatewayCall ==
    /\ \E ch \in ChannelNames : \E x \in GatewayInputs(ch) :
           last' = [op |-> "send_reminder", in |-> x,
                    out |-> gateway_send_reminder(x)]
    /\ UNCHANGED <<today, pstatus, prenewal, reminders, ssn, dsn, hist, seq,
                   daily, outreach, retOn, cust>>

\* ------------------------------------------------ Reminder Dispatcher

IdleDispatcher == [pc |-> "idle", todo |-> <<>>, orig |-> <<>>, obj |-> <<>>]

BatchLimit(j) == IF j = "aps" THEN ApsBatchLimit ELSE CeleryBatchLimit

\* A query that takes the due rows of active policies only.
DueReminders_ActivePolicy(rows) ==
    {i \in 1..Len(rows) : /\ rows[i].status = "pending"
                          /\ rows[i].sched <= today
                          /\ pstatus[rows[i].policy] = "active"}

\* A query that takes every pending row, due or not.
DueReminders_AnyPending(rows) ==
    {i \in 1..Len(rows) : rows[i].status = "pending"}

\* where(status == PENDING, scheduled_date <= utcnow())
DueReminders(rows) ==
    {i \in 1..Len(rows) : rows[i].status = "pending" /\ rows[i].sched <= today}

\* .limit(n) with no ORDER BY: any n of the matching rows, in any order.
Batches(S, n) ==
    {b \in [1..Min(n, Cardinality(S)) -> S] :
        \A x, y \in DOMAIN b : x # y => b[x] # b[y]}

\* A status update that takes "skipped" for a failure.
AfterSend_SkippedFails(j, r, out) ==
    IF out.status = "sent"
    THEN [r EXCEPT !.status = "sent", !.sent = today, !.ext = out.mid]
    ELSE [r EXCEPT !.status = IF r.retry + 1 < MaxRetries THEN "pending" ELSE "failed",
                   !.err = out.error,
                   !.retry = r.retry + 1]

\* The status update after gateway.send_reminder returned `out`
\* (scheduler.py keeps external_id on "skipped", the Celery task sets it).
AfterSend(j, r, out) ==
    IF out.status = "sent"
    THEN [r EXCEPT !.status = "sent", !.sent = today, !.ext = out.mid]
    ELSE IF out.status = "skipped"
    THEN [r EXCEPT !.status = "sent", !.sent = today,
                   !.ext = IF j = "aps" THEN @ ELSE NoText]
    ELSE [r EXCEPT !.status = IF r.retry + 1 < MaxRetries THEN "pending" ELSE "failed",
                   !.err = out.error,
                   !.retry = r.retry + 1]

\* No Dispatcher session is open.
NoTickOpen == \A j \in Jobs : dsn[j].pc = "idle"

\* history counters saturate
Bump(f, i, cap) == [f EXCEPT ![i] = Min(@ + 1, cap)]

\* The query of send_pending_reminders: the session loads the batch.
DispSelect(j) ==
    /\ dsn[j].pc = "idle"
    /\ \E b \in Batches(DueReminders(reminders), BatchLimit(j)) :
           dsn' = [dsn EXCEPT ![j] =
                      [pc |-> "run", todo |-> b,
                       orig |-> [i \in {b[k] : k \in DOMAIN b} |-> reminders[i]],
                       obj |-> [i \in {b[k] : k \in DOMAIN b} |-> reminders[i]]]]
    /\ seq' = 0
    /\ UNCHANGED <<today, pstatus, prenewal, reminders, ssn, hist, daily, aux>>

\* One pass of the loop body: the gateway call for the next reminder of the
\* batch and the update of the loaded object.  A raised exception leaves
\* the loop for the except branch: await db.rollback().
DispSend(j, H) ==
    /\ dsn[j].pc = "run"
    /\ dsn[j].todo # <<>>
    /\ LET i == Head(dsn[j].todo)
           r == dsn[j].obj[i]
       IN  \E out \in GatewayOutcomes(r.channel) :
            /\ dsn' = [dsn EXCEPT ![j] =
                          IF out.status = "raise" THEN IdleDispatcher
                          ELSE [@ EXCEPT !.todo = Tail(@),
                                         !.obj[i] = AfterSend(j, r, out)]]
            /\ calls' = IF "calls" \in H THEN Bump(calls, i, MaxRetries + 1) ELSE calls
            /\ sentN' = IF "sentN" \in H /\ out.status = "sent"
                        THEN Bump(sentN, i, 2) ELSE sentN
            /\ failN' = IF "failN" \in H /\ out.status = "failed"
                        THEN Bump(failN, i, MaxRetries) ELSE failN
            /\ streak' = IF "streak" \notin H THEN streak
                         ELSE IF out.status = "failed" THEN Bump(streak, i, MaxRetries)
                         ELSE [streak EXCEPT ![i] = 0]
            /\ last' = IF "last" \notin H THEN last
                       ELSE [op |-> "send_pending_reminders", job |-> j,
                             row |-> i, out |-> out]
    /\ seq' = 0
    /\ UNCHANGED <<today, pstatus, prenewal, reminders, ssn, daily, outreach,
                   retOn, cust>>

\* The UPDATE a flush emits for a loaded object: the columns whose value
\* differs from the loaded one.
Flush(row, orig, obj) ==
    [f \in DOMAIN row |-> IF obj[f] # orig[f] THEN obj[f] ELSE row[f]]

\* await db.commit() after the loop
DispCommit(j) ==
    /\ dsn[j].pc = "run"
    /\ dsn[j].todo = <<>>
    /\ reminders' = [i \in RowIds |->
                        IF i \in DOMAIN dsn[j].obj
                        THEN Flush(reminders[i], dsn[j].orig[i], dsn[j].obj[i])
                        ELSE reminders[i]]
    /\ dsn' = [dsn EXCEPT ![j] = IdleDispatcher]
    /\ seq' = 0
    /\ UNCHANGED <<today, pstatus, prenewal, ssn, hist, daily, aux>>

\* ---------------------------------------------- reminder endpoints

\* POST /reminders/
create_reminder(p, w, ch, sd) ==
    /\ Len(reminders) < MaxRows
    /\ reminders' = Append(reminders, RenewalReminder(p, w, ch, sd))
    /\ seq' = 0
    /\ UNCHANGED <<today, pstatus, prenewal, ssn, dsn, hist, daily, aux>>

\* The rows POST /reminders/schedule-for-policy/{policy_id} adds: one per
\* window whose midnight is not in the past.
RECURSIVE ScheduledFor(_, _)
ScheduledFor(p, n) ==
    IF n > Len(reminder_window_days) THEN <<>>
    ELSE LET w == reminder_window_days[n]
         IN  IF prenewal[p] - w <= today
             THEN ScheduledFor(p, n + 1)
             ELSE <<RenewalReminder(p, w, preferred_channel(p), prenewal[p] - w)>>
                  \o ScheduledFor(p, n + 1)

\* POST /reminders/schedule-for-policy/{policy_id}
schedule_reminders_for_policy(p) ==
    /\ Len(reminders) + Len(ScheduledFor(p, 1)) <= MaxRows
    /\ reminders' = reminders \o ScheduledFor(p, 1)
    /\ seq' = 0
    /\ UNCHANGED <<today, pstatus, prenewal, ssn, dsn, hist, daily, aux>>

\* send_reminder_message: external_id and error_message are set on the
\* reminder, and only "sent" / "delivered" count as success.
\* POST /reminders/{reminder_id}/send
send_reminder(i) ==
    /\ i \in RowIds
    /\ reminders[i].status = "pending"
    /\ \E out \in GatewayOutcomes(reminders[i].channel) :
        /\ reminders' =
              IF out.status = "raise" THEN reminders
              ELSE [reminders EXCEPT ![i] =
                       [@ EXCEPT !.ext = IF out.mid # NoText THEN out.mid ELSE @,
                                 !.err = IF out.status = "failed" THEN out.error ELSE @,
                                 !.status = IF out.status = "sent" THEN "sent" ELSE "failed",
                                 !.sent = IF out.status = "sent" THEN today ELSE @,
                                 !.retry = IF out.status = "sent" THEN @ ELSE @ + 1]]
        /\ sentN' = IF out.status = "sent" THEN Bump(sentN, i, 2) ELSE sentN
    /\ seq' = 0
    /\ UNCHANGED <<today, pstatus, prenewal, ssn, dsn, calls, failN, streak, daily, aux>>

\* DELETE /reminders/{reminder_id}
cancel_reminder(i) ==
    /\ i \in RowIds
    /\ reminders[i].status = "pending"
    /\ reminders' = [reminders EXCEPT ![i].status = "cancelled"]
    /\ seq' = 0
    /\ UNCHANGED <<today, pstatus, prenewal, ssn, dsn, hist, daily, aux>>

\* ------------------------------------------------------------- time

AdvanceDay ==
    /\ today < MaxDay
    /\ today' = today + 1
    /\ seq' = 0
    /\ UNCHANGED <<pstatus, prenewal, reminders, ssn, dsn, hist, daily, aux>>

\* --------------------------------------------- Policy Lifecycle Updater

\* A pending query that leaves the horizon's last day out.
PendingMatches_Strict(ps, d) ==
    {p \in Policies : ps[p] = "active" /\ prenewal[p] < d + Horizon /\ prenewal[p] >= d}

\* A pending query that also takes policies already pending renewal.
PendingMatches_AnyOpen(ps, d) ==
    {p \in Policies : /\ ps[p] \in {"active", "pending_renewal"}
                      /\ prenewal[p] <= d + Horizon /\ prenewal[p] >= d}

\* pending_query: ACTIVE with today <= renewal_date <= today + 30
PendingMatches(ps, d) ==
    {p \in Policies : ps[p] = "active" /\ prenewal[p] <= d + Horizon /\ prenewal[p] >= d}

\* lapsed_query: ACTIVE or PENDING_RENEWAL with renewal_date < today
LapsedMatches(ps, d) ==
    {p \in Policies : ps[p] \in {"active", "pending_renewal"} /\ prenewal[p] < d}

\* the loop over pending_policies
MarkPending(ps, d) ==
    [p \in Policies |-> IF p \in PendingMatches(ps, d) THEN "pending_renewal" ELSE ps[p]]

\* the loop over lapsed_policies
MarkLapsed(ps, d) ==
    [p \in Policies |-> IF p \in LapsedMatches(ps, d) THEN "lapsed" ELSE ps[p]]

\* update_policy_statuses: both loops, the commit, and the counts it logs
\* (pending_count, lapsed_count).  The lapsed query runs after the pending
\* loop's changes are flushed.
update_policy_statuses ==
    /\ pstatus' = MarkLapsed(MarkPending(pstatus, today), today)
    /\ last' = [op |-> "update_policy_statuses", day |-> today,
                pending |-> Cardinality(PendingMatches(pstatus, today)),
                lapsed |-> Cardinality(LapsedMatches(MarkPending(pstatus, today),
                                                     today))]
    /\ seq' = 0
    /\ UNCHANGED <<today, prenewal, reminders, ssn, dsn, hist, outreach, retOn, cust>>

\* A run of the updater at any time of the day.
UpdaterRun == update_policy_statuses /\ UNCHANGED daily

\* ---------------------------------------------------- policy endpoints

\* A renewal that puts the policy back to active.
renew_policy_Reactivate(p) ==
    /\ pstatus[p] \in {"active", "pending_renewal"}
    /\ prenewal' = [prenewal EXCEPT ![p] = @ + TermDays]
    /\ pstatus' = [pstatus EXCEPT ![p] = "active"]
    /\ last' = [op |-> "renew_policy", policy |-> p]
    /\ seq' = 0
    /\ UNCHANGED <<today, reminders, ssn, dsn, hist, daily, outreach, retOn, cust>>

\* POST /policies/{policy_id}/renew: the term moves on by 365 days
\* (end_date = renewal_date + 365, renewal_date = end_date).
renew_policy(p) ==
    /\ pstatus[p] \in {"active", "pending_renewal"}
    /\ prenewal' = [prenewal EXCEPT ![p] = @ + TermDays]
    /\ pstatus' = [pstatus EXCEPT ![p] = "renewed"]
    /\ last' = [op |-> "renew_policy", policy |-> p]
    /\ seq' = 0
    /\ UNCHANGED <<today, reminders, ssn, dsn, hist, daily, outreach, retOn, cust>>

\* PATCH /policies/{policy_id} with a status in the body
update_policy(p, st) ==
    /\ pstatus' = [pstatus EXCEPT ![p] = st]
    /\ last' = [op |-> "update_policy", policy |-> p]
    /\ seq' = 0
    /\ UNCHANGED <<today, prenewal, reminders, ssn, dsn, hist, daily, outreach,
                   retOn, cust>>

\* ------------------------------------------------- retention outreach

\* policy.customer_id
customer_of(p) == IF p = "p1" THEN "c1" ELSE "c2"

\* OutreachLog(customer_id, policy_id, outreach_type, channel, sent_at,
\* delivered)
OutreachLog(c, p, ty, ch, sd, dl) ==
    [customer |-> c, policy |-> p, otype |-> ty, channel |-> ch, sent |-> sd,
     delivered |-> dl]

\* The policy query: PENDING_RENEWAL with today <= renewal_date <= today + 7
RetentionDue(p, d) ==
    pstatus[p] = "pending_renewal" /\ prenewal[p] <= d + RetentionDays /\ prenewal[p] >= d

\* The recent_outreach count query: retention entries of this customer and
\* policy with sent_at >= utcnow() - 3 days.  An entry of the day three
\* days back counts when the run's time of day is not later than the
\* entry's (early).
RecentOutreach(logs, p, d, early) ==
    {k \in 1..Len(logs) :
        /\ logs[k].customer = customer_of(p)
        /\ logs[k].policy = p
        /\ logs[k].otype = "retention"
        /\ \/ logs[k].sent > d - RecentDays
           \/ logs[k].sent = d - RecentDays /\ early}

\* The loop over the policies the query returned, from the k-th on: the
\* session's log rows, the policies the gateway was invoked for with what
\* each call came back with, whether a call raised, and outreach_sent.
RECURSIVE RetentionLoop(_, _, _, _, _, _)
RetentionLoop(order, k, outs, d, early, acc) ==
    IF k > Len(order) \/ acc.raised THEN acc
    ELSE LET p == order[k]
         IN  IF ~RetentionDue(p, d) \/ RecentOutreach(acc.logs, p, d, early) # {}
             THEN RetentionLoop(order, k + 1, outs, d, early, acc)
             ELSE IF outs[p].status = "raise"
             THEN [acc EXCEPT !.invoked = @ \cup {p}, !.raised = TRUE,
                              !.got = @ @@ (p :> "raise")]
             ELSE RetentionLoop(order, k + 1, outs, d, early,
                      [acc EXCEPT
                          !.invoked = @ \cup {p},
                          !.got = @ @@ (p :> outs[p].status),
                          !.sent = IF outs[p].status \in {"sent", "skipped"}
                                   THEN @ + 1 ELSE @,
                          !.logs = Append(@, OutreachLog(customer_of(p), p,
                                       "retention", preferred_channel(p), d,
                                       outs[p].status \in {"sent", "skipped"}))])

\* process_retention_outreach: the run with its commit, or, when a gateway
\* call raises, with its rollback.
process_retention_outreach ==
    /\ \E order \in Batches(Policies, Cardinality(Policies)) :
       \E outs \in [Policies -> UNION {GatewayOutcomes(preferred_channel(p)) :
                                           p \in Policies}] :
       \E early \in IF \E k \in 1..Len(outreach) :
                           outreach[k].sent = today - RecentDays
                     THEN BOOLEAN ELSE {FALSE} :
          /\ \A p \in Policies : outs[p] \in GatewayOutcomes(preferred_channel(p))
          /\ LET run == RetentionLoop(order, 1, outs, today, early,
                             [logs |-> outreach, invoked |-> {}, raised |-> FALSE,
                              sent |-> 0, got |-> <<>>])
             IN  /\ outreach' = IF run.raised THEN outreach ELSE run.logs
                 /\ retOn' = [p \in Policies |->
                                 IF p \in run.invoked THEN today ELSE retOn[p]]
                 /\ last' = [op |-> "process_retention_outreach", day |-> today,
                             early |-> early, invoked |-> run.invoked,
                             raised |-> run.raised, sent |-> run.sent,
                             got |-> run.got]
    /\ seq' = 0
    /\ UNCHANGED <<today, pstatus, prenewal, reminders, ssn, dsn, hist, daily, cust>>

\* ------------------------------------------------- the engagement scorer

Customers == {customer_of(p) : p \in Policies}

Max(a, b) == IF a > b THEN a ELSE b

\* The three counts the scorer queries for a customer.
interaction_count(c) == interactions[c]

renewal_count(c) ==
    held[c].renewed
        + Cardinality({p \in Policies : customer_of(p) = c /\ pstatus[p] = "renewed"})

lapsed_count(c) ==
    held[c].lapsed
        + Cardinality({p \in Policies : customer_of(p) = c /\ pstatus[p] = "lapsed"})

\* The score on top of the previous one, unclamped.
score_of_Accumulate(c) ==
    engagement_score[c] + Min(interaction_count(c) * 2, 20)
        + Min(renewal_count(c) * 5, 15)
        + (IF lapsed_count(c) = 0 THEN 15 ELSE 0 - Min(lapsed_count(c) * 10, 30))

\* The score without the caps of the factors.
score_of_NoCaps(c) ==
    Max(0, Min(100, 50 + interaction_count(c) * 2 + renewal_count(c) * 5
                       + (IF lapsed_count(c) = 0 THEN 15 ELSE 0 - lapsed_count(c) * 10)))

\* The loop body of calculate_engagement_scores: the score of one customer.
score_of(c) ==
    LET base == 50
        f1 == base + Min(interaction_count(c) * 2, 20)
        f2 == f1 + Min(renewal_count(c) * 5, 15)
        f3 == IF lapsed_count(c) = 0 THEN f2 + 15
              ELSE f2 - Min(lapsed_count(c) * 10, 30)
    IN  Max(0, Min(100, f3))

\* calculate_engagement_scores, of either job runner: every customer's
\* score is set and the session committed.
calculate_engagement_scores ==
    /\ engagement_score' = [c \in Customers |-> score_of(c)]
    /\ last' = [op |-> "calculate_engagement_scores", day |-> today,
                updated |-> Cardinality(Customers),
                rerun |-> last.op = "calculate_engagement_scores"]
    /\ seq' = 0
    /\ UNCHANGED <<today, pstatus, prenewal, reminders, ssn, dsn, hist, daily,
                   outreach, retOn, interactions, held>>

\* ------------------------------------------------- the daily schedule

\* CronTrigger(hour=0, minute=0): the updater's one run of the day.
DailyUpdate ==
    /\ ~updRan
    /\ update_policy_statuses
    /\ updRan' = TRUE
    /\ UNCHANGED schedRan

\* IntervalTrigger(minutes=REMINDER_CHECK_INTERVAL_MINUTES): a run of the
\* Scheduler, which commits.
DailySched ==
    /\ reminders' = reminders \o ToCreate(reminders, today)
    /\ schedRan' = TRUE
    /\ UNCHANGED <<today, pstatus, prenewal, ssn, dsn, hist, seq, updRan, aux>>

\* Midnight, after a day on which both jobs have run.
DailyAdvance ==
    /\ updRan /\ schedRan
    /\ today < MaxDailyDay
    /\ today' = today + 1
    /\ updRan' = FALSE
    /\ schedRan' = FALSE
    /\ UNCHANGED <<pstatus, prenewal, reminders, ssn, dsn, hist, seq, aux>>

\* ------------------------------------------------------------- specs

\* Renewal dates that meet a window on day 0 or on day 1.
RenewalDates == {7, 8}

\* Renewal dates more than 30 days ahead of day 0.
FarRenewalDates == {31, 32}

\* Customers as the table creates them: score 0, nothing logged, no
\* further policies.
NoActivity ==
    /\ engagement_score = [c \in Customers |-> 0]
    /\ interactions = [c \in Customers |-> 0]
    /\ held = [c \in Customers |-> [renewed |-> 0, lapsed |-> 0]]

InitWith(dates) ==
    /\ today = 0
    /\ pstatus = [p \in Policies |-> "active"]
    /\ prenewal \in [Policies -> dates]
    /\ reminders = <<>>
    /\ ssn = [j \in Jobs |-> IdleScheduler]
    /\ dsn = [j \in Jobs |-> IdleDispatcher]
    /\ calls = [i \in 1..MaxRows |-> 0]
    /\ sentN = [i \in 1..MaxRows |-> 0]
    /\ failN = [i \in 1..MaxRows |-> 0]
    /\ streak = [i \in 1..MaxRows |-> 0]
    /\ seq = 0
    /\ updRan = FALSE
    /\ schedRan = FALSE
    /\ outreach = <<>>
    /\ retOn = [p \in Policies |-> NoDay]
    /\ NoActivity
    /\ last = NoCall

Init == InitWith(RenewalDates)

\* Renewal dates 30 and 31 days ahead of day 0: a window away on one of the
\* days 0 and 1, one day off on the other.
WindowRenewalDates == {30, 31}

\* The store with policies in any of the given statuses and renewal dates,
\* and an outreach log out of the given ones.
InitStore(statuses, dates, logs) ==
    /\ today = 0
    /\ pstatus \in [Policies -> statuses]
    /\ prenewal \in [Policies -> dates]
    /\ reminders = <<>>
    /\ ssn = [j \in Jobs |-> IdleScheduler]
    /\ dsn = [j \in Jobs |-> IdleDispatcher]
    /\ calls = [i \in 1..MaxRows |-> 0]
    /\ sentN = [i \in 1..MaxRows |-> 0]
    /\ failN = [i \in 1..MaxRows |-> 0]
    /\ streak = [i \in 1..MaxRows |-> 0]
    /\ seq = 0
    /\ updRan = FALSE
    /\ schedRan = FALSE
    /\ outreach \in logs
    /\ retOn = [p \in Policies |-> NoDay]
    /\ NoActivity
    /\ last = NoCall

\* The same store with policies in any of the given statuses.
InitAnyStatus(statuses, dates) == InitStore(statuses, dates, {<<>>})

\* Outreach entries of earlier days: sent 1, 3 or 4 days before day 0, of
\* type retention or reminder, for either policy and either customer, not
\* delivered.
EarlierLogs ==
    {OutreachLog(c, p, ty, preferred_channel(p), sd, dl) :
        c \in {"c1", "c2"}, p \in Policies, ty \in {"retention", "reminder"},
        sd \in {0 - 1, 0 - 3, 0 - 4}, dl \in {FALSE}}

\* The history variables a specification observes.
AllHistory == {"calls", "sentN", "failN", "streak"}

\* The periodic jobs of one process: Scheduler and Dispatcher ticks.
Next ==
    \/ SchedRun("aps")
    \/ DispSelect("aps")
    \/ DispSend("aps", AllHistory)
    \/ DispCommit("aps")
    \/ AdvanceDay

Spec == Init /\ [][Next]_vars

\* The Dispatcher's interval trigger fires again and again, and a gateway
\* call comes back (with an outcome or an exception).
FairSpec ==
    /\ Spec
    /\ WF_vars(DispSelect("aps"))
    /\ WF_vars(DispSend("aps", AllHistory))
    /\ WF_vars(DispCommit("aps"))

\* The Scheduler of both processes and the endpoints that create reminders.
SchedNext ==
    \/ \E j \in Jobs : SchedScan(j)
    \/ \E j \in Jobs : SchedCommit(j)
    \/ \E j \in Jobs : SchedAbort(j)
    \/ \E p \in Policies : \E w \in {7, 1} : \E sd \in {today, today + 1} :
           create_reminder(p, w, preferred_channel(p), sd)
    \/ \E p \in Policies : schedule_reminders_for_policy(p)
    \/ AdvanceDay

SchedSpec == Init /\ [][SchedNext]_vars

\* The Dispatcher of both processes and the endpoints that send and cancel.
ConcNext ==
    \/ \E j \in Jobs : SchedRun(j)
    \/ \E j \in Jobs : DispSelect(j)
    \/ \E j \in Jobs : DispSend(j, {"sentN"})
    \/ \E j \in Jobs : DispCommit(j)
    \/ \E i \in 1..MaxRows : send_reminder(i)
    \/ \E i \in 1..MaxRows : cancel_reminder(i)

ConcSpec == InitWith({7}) /\ [][ConcNext]_vars

\* Every day the updater runs once and the Scheduler at least once, in
\* either order, and no run fails.
DailyNext ==
    \/ DailyUpdate
    \/ DailySched
    \/ DailyAdvance

DailySpec == InitWith(FarRenewalDates) /\ [][DailyNext]_vars

\* The Scheduler around the 30-day window, over policies of any status and
\* rows that exist already.
WindowNext ==
    \/ \E j \in Jobs : SchedScan(j)
    \/ \E j \in Jobs : SchedCommit(j)
    \/ \E j \in Jobs : SchedAbort(j)
    \/ \E p \in Policies : \E w \in {30, 29} :
           create_reminder(p, w, preferred_channel(p), today)
    \/ UpdaterRun
    \/ AdvanceDay

WindowSpec ==
    InitAnyStatus({"active", "pending_renewal", "cancelled"}, WindowRenewalDates)
        /\ [][WindowNext]_vars

\* Renewal dates on day 0, on the horizon's last day, and one day past it.
LifeRenewalDates == {0, 30, 31}

\* The updater and renewals over policies of every status.
LifeNext ==
    \/ UpdaterRun
    \/ \E p \in Policies : renew_policy(p)
    \/ AdvanceDay

LifeSpec == InitAnyStatus(PolicyStatus, LifeRenewalDates) /\ [][LifeNext]_vars

\* Retention outreach over policies that are or become pending renewal
\* within a week, with at most one outreach entry of an earlier day.
RetentionNext ==
    \/ process_retention_outreach
    \/ UpdaterRun
    \/ AdvanceDay

RetentionSpec ==
    InitStore({"active", "pending_renewal"}, RenewalDates,
              {<<>>} \cup {<<r>> : r \in EarlierLogs})
        /\ [][RetentionNext]_vars

\* Renewal dates a week ahead of day 0 and one term before that.
TermRenewalDates == {7 - TermDays, 7}

\* The Scheduler next to the updater and renewals, over policies that are
\* active or pending renewal, some of them overdue by almost a term.
RenewNext ==
    \/ SchedScan("aps")
    \/ SchedCommit("aps")
    \/ SchedAbort("aps")
    \/ UpdaterRun
    \/ \E p \in Policies : renew_policy(p)
    \/ AdvanceDay

RenewSpec ==
    InitAnyStatus({"active", "pending_renewal"}, TermRenewalDates)
        /\ [][RenewNext]_vars

\* Dispatcher ticks over the reminders the Scheduler created, while the
\* policies change status: by the updater, a renewal or a status patch.
CarryNext ==
    \/ SchedRun("aps")
    \/ UpdaterRun
    \/ \E p \in Policies : renew_policy(p)
    \/ \E p \in Policies : \E st \in {"lapsed", "cancelled"} : update_policy(p, st)
    \/ DispSelect("aps")
    \/ DispSend("aps", {"last"})
    \/ DispCommit("aps")
    \/ AdvanceDay

CarrySpec == InitWith({7}) /\ [][CarryNext]_vars

\* Dispatcher ticks of either process, one at a time, over sms reminders
\* the endpoints create, for today or tomorrow, and cancel between ticks.
TickNext ==
    \/ \E sd \in {today, today + 1} :
           NoTickOpen /\ create_reminder("p1", 7, preferred_channel("p1"), sd)
    \/ \E i \in 1..MaxRows : NoTickOpen /\ cancel_reminder(i)
    \/ \E j \in Jobs : NoTickOpen /\ DispSelect(j)
    \/ \E j \in Jobs : DispSend(j, {"last"})
    \/ \E j \in Jobs : DispCommit(j)
    \/ NoTickOpen /\ AdvanceDay

TickSpec == InitWith({7}) /\ [][TickNext]_vars

\* The gateway called with every input.
GatewaySpec == Init /\ [][GatewayCall]_vars

\* Scores a customer row can hold before a run, in and out of [0, 100].
PreviousScores == {0 - 10, 0, 250}

\* Interaction counts below, at and above the cap of the first factor.
InteractionCounts == {0, 4, 10, MaxInteractions}

\* The Engagement Scorer over customers with any such activity.
EngagementInit ==
    /\ today = 0
    /\ pstatus \in [Policies -> {"active", "renewed", "lapsed"}]
    /\ prenewal = [p \in Policies |-> 7]
    /\ reminders = <<>>
    /\ ssn = [j \in Jobs |-> IdleScheduler]
    /\ dsn = [j \in Jobs |-> IdleDispatcher]
    /\ calls = [i \in 1..MaxRows |-> 0]
    /\ sentN = [i \in 1..MaxRows |-> 0]
    /\ failN = [i \in 1..MaxRows |-> 0]
    /\ streak = [i \in 1..MaxRows |-> 0]
    /\ seq = 0
    /\ updRan = FALSE
    /\ schedRan = FALSE
    /\ outreach = <<>>
    /\ retOn = [p \in Policies |-> NoDay]
    /\ engagement_score \in [Customers -> PreviousScores]
    /\ interactions \in [Customers -> InteractionCounts]
    /\ held \in [Customers -> [renewed : 0..MaxHeld, lapsed : 0..MaxHeld]]
    /\ last = NoCall

EngagementSpec == EngagementInit /\ [][calculate_engagement_scores]_vars

\* ------------------------------------------------------------ claims


\* C1 (DailySpec): with the updater run once and the Scheduler at least once
\* on every day, a policy that starts active more than 30 days ahead of its
\* renewal_date has, once the day renewal_date - w is over, a reminder of
\* type w scheduled on that day, for every configured window w.
C1_EveryWindowReminded ==
    \A p \in Policies : \A w \in WindowSet :
        today > prenewal[p] - w =>
            \E i \in RowIds : /\ reminders[i].policy = p
                              /\ reminders[i].rtype = w
                              /\ reminders[i].sched = prenewal[p] - w

\* C2 (SchedSpec): a Scheduler run that follows another Scheduler run on the
\* same day with nothing in between creates no row; and a run on its own
\* adds at most one row to a (policy, reminder_type) pair, and none to a
\* pair that holds a row already.
C2_SecondRunCreatesNothing ==
    [][/\ (seq \in {3, 5} /\ seq' \in {2, 4, 6}) => reminders' = reminders
       /\ (seq \in {1, 3, 5} /\ seq' \in {2, 4, 6}) =>
              \A p \in Policies : \A w \in WindowSet :
                  \/ Count(reminders', p, w) = Count(reminders, p, w)
                  \/ Count(reminders, p, w) = 0 /\ Count(reminders', p, w) = 1
      ]_vars

\* C2 witness: a second run has committed right after a run that created
\* rows for policies that are still due.
C2_Witness ==
    /\ seq = 6
    /\ \E i \in RowIds : DuePolicy(reminders[i].policy, today, reminders[i].rtype)

\* C3 (SchedSpec): at most one Reminder row per (policy_id, reminder_type).
C3_OnePerPair ==
    \A p \in Policies : \A w \in WindowSet : Count(reminders, p, w) <= 1

\* C4 (ConcSpec): the gateway answers "sent" at most once for a reminder.
C4_SentAtMostOnce == \A i \in RowIds : sentN[i] <= 1

\* C5 (Spec): when the send of one reminder of a batch raises, the updates
\* made to the other reminders of that batch are committed.
C5_BatchSurvivesException ==
    [][\A j \in Jobs :
          (dsn[j].pc = "run" /\ dsn[j].todo # <<>> /\ dsn'[j].pc = "idle") =>
              \A i \in DOMAIN dsn[j].obj \ {Head(dsn[j].todo)} :
                  reminders'[i] = Flush(reminders[i], dsn[j].orig[i], dsn[j].obj[i])
      ]_vars

\* C6 (Spec): after three consecutive Dispatcher ticks whose send returned
\* failed for a reminder, it is failed with retry_count 3 (and so no longer
\* among the due reminders a tick selects).
C6_RetryCeiling ==
    \A i \in RowIds :
        (streak[i] = MaxRetries /\ NoTickOpen) =>
            /\ reminders[i].status = "failed"
            /\ reminders[i].retry = MaxRetries
            /\ i \notin DueReminders(reminders)

\* C7 (Spec): the Dispatcher invokes the gateway at most max_retries times
\* for a reminder.
C7_AtMostMaxRetriesCalls == \A i \in RowIds : calls[i] <= MaxRetries

\* C8 (FairSpec): a reminder that is pending and due is eventually sent,
\* failed or cancelled.
C8_NoPendingForever ==
    \A i \in 1..MaxRows :
        (i \in RowIds /\ i \in DueReminders(reminders))
            ~> (i \in RowIds /\ reminders[i].status \in {"sent", "failed", "cancelled"})

\* C9 (Spec): every reminder is the one reminder of its (policy, window)
\* pair, created on the day renewal_date - w with the customer's preferred
\* channel; and once a Dispatcher tick got "sent" with a message id for it,
\* the tick leaves it sent, with sent_at and that external_id, so that no
\* later tick selects it.
C9_EndToEnd ==
    \A i \in RowIds :
        /\ Count(reminders, reminders[i].policy, reminders[i].rtype) = 1
        /\ reminders[i].channel = preferred_channel(reminders[i].policy)
        /\ reminders[i].sched = prenewal[reminders[i].policy] - reminders[i].rtype
        /\ (sentN[i] > 0 /\ NoTickOpen) =>
               /\ reminders[i].status = "sent"
               /\ reminders[i].sent # NoDay
               /\ reminders[i].ext \in MessageIds
               /\ i \notin DueReminders(reminders)

\* C10 (Spec): a reminder that is sent after k failed sends has
\* retry_count = k.
C10_RetryCountsFailures ==
    \A i \in RowIds :
        (reminders[i].status = "sent" /\ NoTickOpen) => reminders[i].retry = failN[i]

\* C11 (ConcSpec): a reminder whose status is cancelled stays cancelled,
\* whatever a Dispatcher tick that had selected it as pending does next.
C11_CancelledStaysCancelled ==
    [][\A i \in RowIds :
          reminders[i].status = "cancelled" => reminders'[i].status = "cancelled"
      ]_vars

\* C12 (ConcSpec): a reminder with status failed has retry_count >= 3.
C12_FailedHasMaxRetries ==
    \A i \in RowIds :
        reminders[i].status = "failed" => reminders[i].retry >= MaxRetries

\* C13 (GatewaySpec): CommunicationGateway.send_reminder never raises; what
\* it returns has status sent, skipped or failed.
C13_GatewayNeverRaises ==
    last.op = "send_reminder" => last.out.status \in {"sent", "skipped", "failed"}

\* C14 (SchedSpec): a Scheduler invocation that fails and rolls back leaves
\* the Reminder rows as they are: none of the rows it had added to its
\* session is persisted.
C14_FailedRunPersistsNothing ==
    [][\A j \in Jobs :
          (ssn[j].pc = "scanned" /\ ssn'[j].pc = "idle" /\ seq' = 7) =>
              reminders' = reminders
      ]_vars

\* C14 witness: an invocation that had added rows to its session was
\* rolled back.
C14_Witness == seq = 7

\* C15 (WindowSpec): a Scheduler run on day d creates a reminder (p, w)
\* exactly when w is a configured window, p is active, p.renewal_date is
\* d + w and no reminder (p, w) exists; it creates one such row and nothing
\* else, so a policy 29 days ahead gets none and one 30 days ahead gets one.
C15_CreatesExactlyWhenDue ==
    [][(seq \in {1, 3, 5} /\ seq' \in {2, 4, 6}) =>
          \A p \in Policies :
              \A w \in WindowSet \cup {reminders'[i].rtype : i \in DOMAIN reminders'} :
                  Count(reminders', p, w) =
                      Count(reminders, p, w)
                      + (IF /\ w \in WindowSet
                            /\ pstatus[p] = "active"
                            /\ prenewal[p] = today + w
                            /\ Count(reminders, p, w) = 0
                         THEN 1 ELSE 0)
      ]_vars

\* C15 witness: a run has just created the 30-day reminder of a policy 30
\* days ahead while an active policy 29 days ahead has no reminder.
C15_Witness ==
    /\ seq = 4
    /\ \E i \in RowIds : /\ reminders[i].rtype = 30
                          /\ reminders[i].sched = today
                          /\ prenewal[reminders[i].policy] = today + 30
    /\ \E q \in Policies : /\ pstatus[q] = "active"
                            /\ prenewal[q] = today + 29
                            /\ \A i \in RowIds : reminders[i].policy # q

\* C16 (Spec): the reminders a Dispatcher run has selected are processed in
\* non-decreasing scheduled_date order, and no pending due reminder with a
\* strictly earlier scheduled_date than a selected one is left out.
C16_OldestDueFirst ==
    \A j \in Jobs :
        dsn[j].pc = "run" =>
            /\ \A x, y \in DOMAIN dsn[j].todo :
                   x < y => dsn[j].orig[dsn[j].todo[x]].sched
                                <= dsn[j].orig[dsn[j].todo[y]].sched
            /\ \A i \in DueReminders(reminders) \ DOMAIN dsn[j].obj :
                   \A k \in DOMAIN dsn[j].obj :
                       reminders[i].sched >= dsn[j].orig[k].sched

\* A step that is a run of update_policy_statuses.
UpdaterStep ==
    /\ last'.op = "update_policy_statuses"
    /\ today' = today
    /\ last' # last \/ pstatus' # pstatus

\* C17 (LifeSpec): a run of the updater on day d makes a policy
\* pending_renewal if it is active with d <= renewal_date <= d + 30, lapsed
\* if it is active or pending_renewal with renewal_date < d, and leaves it
\* unchanged otherwise; renewed, cancelled and lapsed policies and all
\* renewal dates are left alone.
C17_UpdaterMapping ==
    [][UpdaterStep =>
          /\ prenewal' = prenewal
          /\ \A p \in Policies :
                pstatus'[p] =
                    IF /\ pstatus[p] = "active"
                       /\ today <= prenewal[p] /\ prenewal[p] <= today + 30
                    THEN "pending_renewal"
                    ELSE IF /\ pstatus[p] \in {"active", "pending_renewal"}
                            /\ prenewal[p] < today
                    THEN "lapsed"
                    ELSE pstatus[p]
      ]_vars

\* C17 witness: one run has moved a policy whose renewal_date is the
\* horizon's last day to pending_renewal and has lapsed another one.
C17_Witness ==
    /\ last.op = "update_policy_statuses"
    /\ last.day = today
    /\ last.pending = 1
    /\ last.lapsed = 1
    /\ \E p \in Policies : pstatus[p] = "pending_renewal" /\ prenewal[p] = today + 30

\* Rank in the order active, pending_renewal, lapsed.
LifeRank(st) == IF st = "active" THEN 1 ELSE IF st = "pending_renewal" THEN 2 ELSE 3

\* C18 (LifeSpec): over updater runs and renewals, a policy's status only
\* moves forward in the order active, pending_renewal, lapsed, or, by
\* renew_policy, from active or pending_renewal to renewed.
C18_NeverBackward ==
    [][\A p \in Policies :
          pstatus'[p] # pstatus[p] =>
              \/ /\ pstatus[p] \in {"active", "pending_renewal", "lapsed"}
                 /\ pstatus'[p] \in {"active", "pending_renewal", "lapsed"}
                 /\ LifeRank(pstatus[p]) < LifeRank(pstatus'[p])
                 /\ last'.op = "update_policy_statuses"
              \/ /\ pstatus[p] \in {"active", "pending_renewal"}
                 /\ pstatus'[p] = "renewed"
                 /\ last' = [op |-> "renew_policy", policy |-> p]
      ]_vars

\* C18 witness: a policy that the updater had moved to pending_renewal has
\* been renewed, and the updater has run again since.
C18_Witness ==
    /\ last.op = "update_policy_statuses"
    /\ \E p \in Policies : pstatus[p] = "renewed" /\ prenewal[p] = 30 + TermDays
    /\ \E p \in Policies : pstatus[p] = "lapsed" /\ prenewal[p] = 0

\* C19 (LifeSpec): a run of the updater that follows another run of the
\* same day, with nothing in between, changes no policy and reports zero
\* pending and zero lapsed transitions.
C19_SecondUpdateChangesNothing ==
    [][(/\ last.op = "update_policy_statuses"
        /\ last.day = today
        /\ UpdaterStep) =>
           /\ pstatus' = pstatus
           /\ last'.pending = 0
           /\ last'.lapsed = 0
      ]_vars

\* C19 witness: the second run of a day has reported, after a first run
\* that had moved a policy.
C19_Witness ==
    /\ last.op = "update_policy_statuses"
    /\ last.day = today
    /\ last.pending = 0
    /\ last.lapsed = 0
    /\ \E p \in Policies : pstatus[p] = "pending_renewal" /\ prenewal[p] >= today
    /\ \E p \in Policies : pstatus[p] = "lapsed" /\ prenewal[p] = today - 1

\* A step that is a run of process_retention_outreach.
RetentionStep ==
    /\ last'.op = "process_retention_outreach"
    /\ today' = today
    /\ pstatus' = pstatus
    /\ last' # last \/ outreach' # outreach

\* C20 (RetentionSpec): a run of process_retention_outreach invokes the
\* gateway for a policy exactly when the policy is pending_renewal with
\* today <= renewal_date <= today + 7 and has no retention entry of its
\* (customer, policy) sent within the last 3 days.
C20_OutreachExactlyWhenDue ==
    [][RetentionStep =>
          \A p \in Policies :
              p \in last'.invoked <=>
                  /\ pstatus[p] = "pending_renewal"
                  /\ today <= prenewal[p] /\ prenewal[p] <= today + 7
                  /\ ~\E k \in 1..Len(outreach) :
                        /\ outreach[k].customer = customer_of(p)
                        /\ outreach[k].policy = p
                        /\ outreach[k].otype = "retention"
                        /\ \/ outreach[k].sent > today - 3
                           \/ outreach[k].sent = today - 3 /\ last'.early
      ]_vars

\* C21 (RetentionSpec): for every policy a run of process_retention_outreach
\* invokes the gateway for, the run commits exactly one retention entry of
\* that (customer, policy), delivered exactly when the outcome was sent or
\* skipped, whatever happens to the other policies of the run; and the
\* count it returns is the number of sent or skipped outcomes.
C21_OneLogPerInvocation ==
    [][RetentionStep =>
          /\ \A p \in last'.invoked :
                LET new == {k \in (Len(outreach) + 1)..Len(outreach') :
                               /\ outreach'[k].customer = customer_of(p)
                               /\ outreach'[k].policy = p
                               /\ outreach'[k].otype = "retention"}
                IN  /\ Cardinality(new) = 1
                    /\ \A k \in new :
                          outreach'[k].delivered
                              <=> last'.got[p] \in {"sent", "skipped"}
          /\ last'.sent = Cardinality({p \in last'.invoked :
                                          last'.got[p] \in {"sent", "skipped"}})
      ]_vars

\* C25 (RetentionSpec): two gateway invocations of process_retention_outreach
\* for the same (customer, policy) are at least 3 days apart, whether the
\* runs complete or roll back.
C25_OutreachThreeDaysApart ==
    [][RetentionStep =>
          \A p \in last'.invoked :
              retOn[p] = NoDay \/ today - retOn[p] >= 3
      ]_vars

\* A run of calculate_engagement_scores.
ScorerStep == last'.op = "calculate_engagement_scores"

\* C22 (EngagementSpec): whatever the counts of interactions, renewed and
\* lapsed policies and whatever the previous score, the score the
\* Engagement Scorer writes lies in [0, 100].
C22_ScoreInRange ==
    [][ScorerStep => \A c \in Customers :
                        engagement_score'[c] >= 0 /\ engagement_score'[c] <= 100]_vars

\* C22 witness: a run has scored a customer with no interactions, no
\* renewals and lapsed policies at the cap of the penalty: 20, the lowest
\* score there is.
C22_Witness ==
    /\ last.op = "calculate_engagement_scores"
    /\ \E c \in Customers : lapsed_count(c) >= 3 /\ interaction_count(c) = 0
                              /\ renewal_count(c) = 0 /\ engagement_score[c] = 20

\* C26 (EngagementSpec): the Engagement Scorer sets each customer's score to
\* clamp(50 + min(2i, 20) + min(5r, 15) + (15 if l = 0 else -min(10l, 30)),
\* 0, 100) for i interactions of the last 30 days, r renewed and l lapsed
\* policies, whatever the previous score; a run right after a run, on the
\* same counts, changes no score.
C26_ScoreFormula ==
    [][ScorerStep =>
          /\ \A c \in Customers :
                LET i == interaction_count(c)
                    r == renewal_count(c)
                    l == lapsed_count(c)
                    sum == 50 + (IF 2 * i < 20 THEN 2 * i ELSE 20)
                              + (IF 5 * r < 15 THEN 5 * r ELSE 15)
                              + (IF l = 0 THEN 15
                                 ELSE 0 - (IF 10 * l < 30 THEN 10 * l ELSE 30))
                IN  engagement_score'[c] =
                        IF sum < 0 THEN 0 ELSE IF sum > 100 THEN 100 ELSE sum
          /\ last.op = "calculate_engagement_scores"
                => engagement_score' = engagement_score
      ]_vars

\* C26 witness: the scorer has run twice in a row over a customer whose
\* interactions and renewals are above the caps of their factors and whose
\* previous score was out of range.
C26_Witness ==
    /\ last.op = "calculate_engagement_scores"
    /\ last.rerun
    /\ \E c \in Customers : /\ interaction_count(c) > 10
                              /\ renewal_count(c) >= 3
                              /\ lapsed_count(c) = 0
                              /\ engagement_score[c] = 100

\* C23 (GatewaySpec): send_reminder returns skipped exactly when the channel
\* is email, sms or whatsapp and the credentials of that channel's provider
\* are missing, and then the provider is not called; for every other
\* channel name, chat included, it returns failed without calling a provider.
C23_SkippedIffNotConfigured ==
    last.op = "send_reminder" =>
        LET x == last.in
            known == x.ch \in {"email", "sms", "whatsapp"}
            missing == IF x.ch = "email" THEN ~x.sendgrid ELSE ~x.twilio
        IN  /\ last.out.status = "skipped" <=> (known /\ missing)
            /\ last.out.status = "skipped" => ~provider_called(x)
            /\ ~known => last.out.status = "failed" /\ ~provider_called(x)

\* C23 witness: the gateway was called for the chat channel with both
\* providers configured and returned failed.
C23_Witness ==
    /\ last.op = "send_reminder"
    /\ last.in.ch = "chat"
    /\ last.in.sendgrid /\ last.in.twilio
    /\ last.out.status = "failed"

\* A Dispatcher of process j takes a step of its tick: the query, a pass of
\* the loop or the commit / rollback.
TickStep(j) == dsn'[j] # dsn[j]

\* A pass of the loop of process j's Dispatcher.
TickSendStep(j) == dsn[j].pc = "run" /\ dsn[j].todo # <<>> /\ TickStep(j)

\* C24 (TickSpec): what the Dispatcher does to a reminder after the gateway
\* returned depends on retry_count and the outcome only: sent or skipped
\* gives status sent, sent_at now, external_id the message id if there is
\* one, retry_count as it was; any other outcome gives retry_count + 1 and
\* the error recorded, status pending if the new count is below 3 and
\* failed otherwise.
C24_TransitionByOutcome ==
    [][\A j \in Jobs :
          (TickSendStep(j) /\ last'.out.status # "raise") =>
              LET i == Head(dsn[j].todo)
                  r == dsn[j].obj[i]
                  out == last'.out
              IN  dsn'[j].obj[i] =
                      IF out.status \in {"sent", "skipped"}
                      THEN [r EXCEPT !.status = "sent", !.sent = today,
                                     !.ext = out.mid]
                      ELSE [r EXCEPT !.retry = r.retry + 1, !.err = out.error,
                                     !.status = IF r.retry + 1 < 3 THEN "pending"
                                                ELSE "failed"]
      ]_vars

\* C24 witness: a third failed outcome has taken a reminder to status failed
\* with retry_count 3.
C24_Witness ==
    /\ last.op = "send_pending_reminders"
    /\ last.out.status = "failed"
    /\ dsn[last.job].pc = "run"
    /\ last.row \in DOMAIN dsn[last.job].obj
    /\ dsn[last.job].obj[last.row].retry = 3
    /\ dsn[last.job].obj[last.row].status = "failed"
    /\ dsn[last.job].orig[last.row].retry = 2

\* C27 (TickSpec): a Dispatcher tick loads only reminders that are pending
\* and due when it selects them, invokes the gateway for those only and
\* changes those only; rows that are sent, failed or cancelled or pending
\* for a later day stay as they are, and so does every policy and customer.
C27_TickTouchesOnlyDuePending ==
    [][\A j \in Jobs : TickStep(j) =>
          /\ \A i \in DOMAIN dsn'[j].orig :
                /\ dsn'[j].orig[i].status = "pending"
                /\ dsn'[j].orig[i].sched <= today
          /\ TickSendStep(j) => last'.row \in DOMAIN dsn[j].orig
          /\ Len(reminders') = Len(reminders)
          /\ \A i \in RowIds : i \notin DOMAIN dsn[j].orig => reminders'[i] = reminders[i]
          /\ UNCHANGED <<pstatus, prenewal, cust>>
      ]_vars

\* C27 witness: a tick has sent and committed a due reminder while another
\* reminder, pending for a later day, is in the table untouched.
C27_Witness ==
    /\ NoTickOpen
    /\ last.op = "send_pending_reminders"
    /\ last.row \in RowIds
    /\ reminders[last.row].status = "sent"
    /\ \E k \in RowIds : /\ reminders[k].status = "pending"
                          /\ reminders[k].sched > today
                          /\ reminders[k].retry = 0

\* The query and loops of a run of process j's Scheduler.
ScanStep(j) == ssn[j].pc = "idle" /\ ssn'[j].pc = "scanned"

\* C28 (RenewSpec): a policy that is no longer active is never made active
\* again by the updater, the Scheduler or renew_policy, and a Scheduler
\* run adds a reminder only for a policy that is active when it runs; so
\* no later run creates a reminder for a policy once it has left active,
\* also not on the day its renewal date, moved a term forward, is a window
\* away.
C28_NoReminderOnceInactive ==
    [][/\ \A p \in Policies : pstatus[p] # "active" => pstatus'[p] # "active"
       /\ \A j \in Jobs : ScanStep(j) =>
             \A k \in DOMAIN ssn'[j].adds :
                 pstatus[ssn'[j].adds[k].policy] = "active"
      ]_vars

\* C28 witness: after renew_policy moved a policy's renewal date to a week
\* from today, a Scheduler run completed today and created a reminder for
\* another policy but none for the renewed one.
C28_Witness ==
    /\ seq = 4
    /\ last.op = "renew_policy"
    /\ pstatus[last.policy] = "renewed"
    /\ prenewal[last.policy] = today + 7
    /\ Existing(reminders, last.policy, 7) = {}
    /\ \E i \in RowIds : reminders[i].rtype = 7 /\ reminders[i].sched = today

\* The Scheduler's day for (policy, window) is over: the day is past or the
\* policy is not active.
Gone(p, w) == pstatus[p] # "active" \/ prenewal[p] - w < today

\* C30 (RenewSpec): a Scheduler run adds a reminder for (policy, window)
\* only on the day renewal_date - window, of an active policy; and once
\* that day is past, or the policy is not active, this stays so: no later
\* run adds the reminder, there is no catch-up.
C30_NoCatchUp ==
    [][\A p \in Policies : \A w \in WindowSet :
          /\ \A j \in Jobs : ScanStep(j) =>
                \A k \in DOMAIN ssn'[j].adds :
                    (ssn'[j].adds[k].policy = p /\ ssn'[j].adds[k].rtype = w) =>
                        /\ prenewal[p] - w = today
                        /\ ssn'[j].adds[k].sched = today
                        /\ ~Gone(p, w)
          /\ Gone(p, w) => Gone(p, w)'
      ]_vars

\* C30 witness: an active policy's 7-day window fell on yesterday, no run
\* created its reminder then, and a run that completed today created none.
C30_Witness ==
    /\ seq = 2
    /\ \E p \in Policies : /\ pstatus[p] = "active"
                             /\ prenewal[p] - 7 = today - 1
                             /\ Existing(reminders, p, 7) = {}

\* C29 (CarrySpec): the Dispatcher's query takes every pending due reminder
\* whatever the status of its policy, so a reminder created while the
\* policy was active is still sent after the policy became pending_renewal,
\* renewed, lapsed or cancelled; and no operation that changes a policy's
\* status or renewal date changes a reminder.  (The rows are fewer than
\* the batch limit.)
C29_SentWhateverPolicyStatus ==
    [][/\ \A j \in Jobs :
             (dsn[j].pc = "idle" /\ dsn'[j].pc = "run") =>
                 {dsn'[j].todo[k] : k \in DOMAIN dsn'[j].todo} =
                     {i \in RowIds : /\ reminders[i].status = "pending"
                                     /\ reminders[i].sched <= today}
       /\ (pstatus' # pstatus \/ prenewal' # prenewal) => reminders' = reminders
      ]_vars

\* C29 witness: a tick has sent and committed a reminder whose policy had
\* left active before the gateway was called for it.
C29_Witness ==
    /\ NoTickOpen
    /\ last.op = "send_pending_reminders"
    /\ last.out.status = "sent"
    /\ last.row \in RowIds
    /\ reminders[last.row].status = "sent"
    /\ pstatus[reminders[last.row].policy] = "renewed"
    /\ \E i \in RowIds : /\ reminders[i].status = "pending"
                          /\ pstatus[reminders[i].policy] = "cancelled"

====
